---- MODULE Spec2Model ----
(***************************************************************************)
(* The navigation / edit state machine of tui-csv-editor (src/main.rs):    *)
(* the App struct, handle_key, ensure_cell_exists, max_cols, and the       *)
(* record-level behaviour of load_csv / save_csv, driven by the event      *)
(* loop of main.                                                           *)
(*                                                                         *)
(* Texts (String) are sequences of one-character strings.  The grid is a   *)
(* sequence of rows, a row a sequence of texts.  row and col are zero-     *)
(* based as in the source; sequences are one-based, hence data[row + 1].   *)
(* The file is kept as the sequence of records a reader would find in it.  *)
(***************************************************************************)
EXTENDS Integers, Sequences, FiniteSets, TLC

\* Bounds of the model.
MaxRows == 2
MaxCols == 2
MaxKeys == 5

\* Characters the keyboard delivers as KeyCode::Char.
Chars == {"q", "w", "e", "x"}
\* Modifier sets of a key event (KeyModifiers).
Mods == {{}, {"shift"}, {"ctrl"}, {"alt"}, {"shift", "ctrl"}}

VARIABLES data, row, col, editing, editor_buf, dirty, disk, pc, nkeys, last, seed,
          raw, alt, guard, acquired, cause

app == <<data, row, col, editing, editor_buf, dirty>>
\* The terminal: raw mode on, alternate screen entered, _guard holds a
\* TerminalGuard; acquired records that raw mode or the alternate screen was
\* ever switched on, cause the point main returned from.
term == <<raw, alt, guard, acquired, cause>>
vars == <<data, row, col, editing, editor_buf, dirty, disk, pc, nkeys, last, seed,
          raw, alt, guard, acquired, cause>>

\* ------------------------------------------------------------------------
\* Pure helpers

Min(a, b) == IF a < b THEN a ELSE b
Max(a, b) == IF a > b THEN a ELSE b

\* usize::saturating_sub
saturating_sub(a, b) == IF a >= b THEN a - b ELSE 0

\* App::max_cols: the longest row, 0 for an empty grid.
RECURSIVE max_cols(_)
max_cols(d) == IF d = <<>> THEN 0
               ELSE Max(Len(Head(d)), max_cols(Tail(d)))

\* Vec::resize(n, v) as ensure_cell_exists uses it (n > len: append copies).
resize(s, n, v) == IF n <= Len(s) THEN SubSeq(s, 1, n)
                   ELSE s \o [i \in 1..(n - Len(s)) |-> v]

\* Mutant: grows the rows but not the cells of row r.
ensure_cell_exists_rows_only(d, r, c) ==
    IF r >= Len(d) THEN resize(d, r + 1, <<>>) ELSE d

\* Mutant: pads every row to c + 1 cells, not only row r.
ensure_cell_exists_pads_all(d, r, c) ==
    LET d1 == IF r >= Len(d) THEN resize(d, r + 1, <<>>) ELSE d
    IN  [i \in 1..Len(d1) |->
            IF c >= Len(d1[i]) THEN resize(d1[i], c + 1, <<>>) ELSE d1[i]]

\* App::ensure_cell_exists(r, c), r and c zero-based.
ensure_cell_exists(d, r, c) ==
    LET d1 == IF r >= Len(d) THEN resize(d, r + 1, <<>>) ELSE d
    IN  IF c >= Len(d1[r + 1])
        THEN [d1 EXCEPT ![r + 1] = resize(d1[r + 1], c + 1, <<>>)]
        ELSE d1

\* Whether cell (r, c) exists in grid d, and its text ("" when it does not:
\* row.get(c_idx).unwrap_or("") of draw_table).
cell_exists(d, r, c) == r < Len(d) /\ c < Len(d[r + 1])
cell_text(d, r, c) == IF cell_exists(d, r, c) THEN d[r + 1][c + 1] ELSE <<>>

\* Whether the index expression data[r] is within bounds; an index out of
\* bounds panics.
row_exists(d, r) == r < Len(d)

\* String::pop
pop(s) == IF s = <<>> THEN s ELSE SubSeq(s, 1, Len(s) - 1)

\* String::push
push(s, c) == Append(s, c)

\* Mutant: tests that shift is among the modifiers.
accepts_contains_shift(mods) == mods = {} \/ "shift" \in mods

\* The test of main.rs:196 on the modifiers of a Char key.
accepts(mods) == mods = {} \/ mods = {"shift"}

\* Mutant: writes the text into every cell of the row.
set_cell_whole_row(d, r, c, t) ==
    [d EXCEPT ![r + 1] = [j \in 1..Len(d[r + 1]) |-> t]]

\* app.data[app.row][app.col] = app.editor_buf.clone()
set_cell(d, r, c, t) == [d EXCEPT ![r + 1][c + 1] = t]

\* Mutant: clamps to the row length, not to the last index.
clamp_col_to_len(d, r, c) == Min(c, Len(d[r + 1]))

\* app.col.min(app.data[app.row].len().saturating_sub(1)), r the new row
clamp_col(d, r, c) == Min(c, saturating_sub(Len(d[r + 1]), 1))

\* ------------------------------------------------------------------------
\* Persistence (record level)

\* What csv::Writer::write_record leaves in the file for one row: a record
\* without fields is written as one quoted empty field.
emit(r) == IF r = <<>> THEN << <<>> >> ELSE r

\* Index of the first row whose field count differs from the first row's
\* (the writer is not flexible), 0 if there is none.
first_unequal(d) ==
    LET bad == {i \in 1..Len(d) : Len(d[i]) # Len(d[1])}
    IN  IF bad = {} THEN 0 ELSE CHOOSE i \in bad : \A j \in bad : i <= j

\* Mutant: the last row is not written.
written_drops_last(d) == [i \in 1..(Len(d) - 1) |-> emit(d[i])]

\* The records save_csv writes when nothing fails.
written(d) == [i \in 1..Len(d) |-> emit(d[i])]

\* save_csv(path, data): the set of outcomes, each the Result and the
\* records the file holds afterwards.
save_csv(file, d) ==
    LET k   == first_unequal(d)
        out == written(d)
    IN  \* File::create fails: the file is untouched
        {[ok |-> FALSE, file |-> file]}
        \cup
        \* a write or the flush fails: some of the records reached the file
        {[ok |-> FALSE, file |-> SubSeq(out, 1, n)] : n \in 0..(Len(out) - 1)}
        \cup
        \* no I/O failure: UnequalLengths at row k, after its fields went to
        \* the buffer that the writer flushes when dropped
        {IF k = 0 THEN [ok |-> TRUE, file |-> out]
         ELSE [ok |-> FALSE,
               file |-> SubSeq(out, 1, k - 1)
                        \o (IF d[k] = <<>> THEN <<>> ELSE <<d[k]>>)]}

\* Mutant: the reader takes the first record for a header row.
load_csv_has_headers(file) ==
    IF first_unequal(file) = 0
    THEN [ok |-> TRUE, data |-> IF file = <<>> THEN file ELSE Tail(file)]
    ELSE [ok |-> FALSE, data |-> <<>>]

\* load_csv(path): the reader is not flexible either.
load_csv(file) ==
    IF first_unequal(file) = 0 THEN [ok |-> TRUE, data |-> file]
    ELSE [ok |-> FALSE, data |-> <<>>]

\* ------------------------------------------------------------------------
\* Initial states

\* Cell texts of the files the model starts from.
fill(r, c) == IF (r + c) % 2 = 0 THEN <<"x">> ELSE <<>>

\* Grids load_csv can return: no record at all, or records of one common
\* field count >= 1.
LoadedGrids ==
    {<<>>} \cup
    {[r \in 1..h |-> [c \in 1..w |-> fill(r, c)]] :
        h \in 1..MaxRows, w \in 1..MaxCols}

\* Any Vec<Vec<String>>: rows of any lengths, zero included.
RowLens == UNION {[1..h -> 0..MaxCols] : h \in 0..MaxRows}
AnyGrids ==
    {[r \in 1..Len(ls) |-> [c \in 1..ls[r] |-> fill(r, c)]] : ls \in RowLens}

\* History: the key handled last (for a Char key in Editing its modifiers
\* too, and its character when it was accepted), the cursor and dirty flag
\* it found, and how the save_csv call it made (if any) ended.
NoKey == [code |-> "none", row |-> 0, col |-> 0, dirty |-> FALSE, save |-> "none",
          ch |-> "", mods |-> {}]
\* History: the grid and dirty flag found by the 'e' that opened the current
\* (or just closed) edit session.
NoSeed == [on |-> FALSE, data |-> <<>>, dirty |-> FALSE, row |-> 0, col |-> 0]

InitApp ==
    /\ row = 0
    /\ col = 0
    /\ editing = FALSE
    /\ editor_buf = <<>>
    /\ dirty = FALSE
    /\ pc = "loop"
    /\ nkeys = 0
    /\ last = NoKey
    /\ seed = NoSeed

\* main at the top of the loop: the grid is what load_csv returned for the
\* file and TerminalGuard::enter has succeeded.
Init ==
    /\ data \in LoadedGrids
    /\ disk = data
    /\ InitApp
    /\ raw = TRUE
    /\ alt = TRUE
    /\ guard = TRUE
    /\ acquired = TRUE
    /\ cause = "none"

\* An App built directly from a grid, as the unit tests build it.
InitAny ==
    /\ data \in AnyGrids
    /\ disk \in {<<>>} \cup ({data} \cap LoadedGrids)
    /\ InitApp
    /\ raw = FALSE
    /\ alt = FALSE
    /\ guard = FALSE
    /\ acquired = FALSE
    /\ cause = "none"

\* ------------------------------------------------------------------------
\* handle_key, one action per arm

\* One iteration of the loop of main that reads a key (main.rs:280-282).
KeyEvent(code, save, ch, mods) ==
    /\ pc = "loop"
    /\ nkeys < MaxKeys
    /\ nkeys' = nkeys + 1
    /\ last' = [code |-> code, row |-> row, col |-> col, dirty |-> dirty,
                save |-> save, ch |-> ch, mods |-> mods]
    /\ UNCHANGED term

KeySave(code, save) == KeyEvent(code, save, "", {})

Key(code) == KeySave(code, "none")

\* KeyCode::Enter in Editing (main.rs:181-187).  The index expression
\* data[row][col] panics when ensure_cell_exists left the cell missing.
EditEnter ==
    /\ Key("Enter")
    /\ editing
    /\ LET d1 == ensure_cell_exists(data, row, col) IN
       IF cell_exists(d1, row, col)
       THEN /\ data' = set_cell(d1, row, col, editor_buf)
            /\ editor_buf' = <<>>
            /\ editing' = FALSE
            /\ dirty' = TRUE
            /\ pc' = pc
       ELSE /\ data' = d1
            /\ pc' = "panicked"
            /\ UNCHANGED <<editor_buf, editing, dirty>>
    /\ UNCHANGED <<row, col, disk, seed>>

\* Mutant: leaves the buffer as it is.
EditEsc_keeps_buf ==
    /\ Key("Esc")
    /\ editing
    /\ editing' = FALSE
    /\ UNCHANGED <<data, row, col, editor_buf, dirty, disk, pc, seed>>

\* KeyCode::Esc in Editing (main.rs:188-191).
EditEsc ==
    /\ Key("Esc")
    /\ editing
    /\ editor_buf' = <<>>
    /\ editing' = FALSE
    /\ UNCHANGED <<data, row, col, dirty, disk, pc, seed>>

EditBackspace ==
    /\ Key("Backspace")
    /\ editing
    /\ editor_buf' = pop(editor_buf)
    /\ UNCHANGED <<data, row, col, editing, dirty, disk, pc, seed>>

\* Mutant: 'q' is taken for the quit key in Editing too.
EditChar_q_quits ==
    /\ editing
    /\ \E c \in Chars, m \in Mods :
        /\ IF accepts(m) THEN KeyEvent("Char", "none", c, m)
           ELSE KeyEvent("ModChar", "none", "", m)
        /\ editor_buf' = IF accepts(m) THEN push(editor_buf, c) ELSE editor_buf
        /\ pc' = IF c = "q" THEN "done" ELSE pc
    /\ UNCHANGED <<data, row, col, editing, dirty, disk, seed>>

\* KeyCode::Char(c) in Editing (main.rs:195-199).
EditChar ==
    /\ editing
    /\ \E c \in Chars, m \in Mods :
        /\ IF accepts(m) THEN KeyEvent("Char", "none", c, m)
           ELSE KeyEvent("ModChar", "none", "", m)
        /\ editor_buf' = IF accepts(m) THEN push(editor_buf, c) ELSE editor_buf
    /\ UNCHANGED <<data, row, col, editing, dirty, disk, pc, seed>>

EditOther ==
    /\ editing
    /\ \E k \in {"Left", "Right", "Up", "Down", "Tab"} : Key(k)
    /\ UNCHANGED <<app, disk, pc, seed>>

\* Mutant: quits without the auto-save.
NavQuit_no_save ==
    /\ ~editing
    /\ Key("q")
    /\ pc' = "done"
    /\ disk' = disk
    /\ seed' = NoSeed
    /\ UNCHANGED app

\* KeyCode::Char('q') in Navigating (main.rs:210-216); the match is on the
\* key code alone, whatever the modifiers.
NavQuit ==
    /\ ~editing
    /\ IF dirty
       THEN \E res \in save_csv(disk, data) :
               /\ KeySave("q", IF res.ok THEN "ok" ELSE "err")
               /\ disk' = res.file
               /\ pc' = IF res.ok THEN "done" ELSE "failed"
       ELSE /\ Key("q")
            /\ pc' = "done"
            /\ disk' = disk
    /\ seed' = NoSeed
    /\ UNCHANGED app

\* Mutant: clears the dirty flag before the save is known to succeed.
NavWrite_clears_first ==
    /\ ~editing
    /\ \E res \in save_csv(disk, data) :
        /\ KeySave("w", IF res.ok THEN "ok" ELSE "err")
        /\ disk' = res.file
        /\ dirty' = FALSE
        /\ pc' = IF res.ok THEN pc ELSE "failed"
    /\ seed' = NoSeed
    /\ UNCHANGED <<data, row, col, editing, editor_buf>>

\* KeyCode::Char('w') in Navigating (main.rs:217-220).
NavWrite ==
    /\ ~editing
    /\ \E res \in save_csv(disk, data) :
        /\ KeySave("w", IF res.ok THEN "ok" ELSE "err")
        /\ disk' = res.file
        /\ IF res.ok
           THEN dirty' = FALSE /\ pc' = pc
           ELSE dirty' = dirty /\ pc' = "failed"
    /\ seed' = NoSeed
    /\ UNCHANGED <<data, row, col, editing, editor_buf>>

\* KeyCode::Char('e') in Navigating (main.rs:221-225).
NavEdit ==
    /\ Key("e")
    /\ ~editing
    /\ data' = ensure_cell_exists(data, row, col)
    /\ IF cell_exists(data', row, col)
       THEN /\ editor_buf' = data'[row + 1][col + 1]
            /\ editing' = TRUE
            /\ pc' = pc
       ELSE /\ pc' = "panicked"
            /\ UNCHANGED <<editor_buf, editing>>
    /\ seed' = [on |-> TRUE, data |-> data, dirty |-> dirty,
                row |-> row, col |-> col]
    /\ UNCHANGED <<row, col, dirty, disk>>

\* Mutant: wraps to the last column at column 0.
NavLeft_wraps ==
    /\ Key("Left")
    /\ ~editing
    /\ col' = IF col > 0 THEN col - 1 ELSE Max(max_cols(data), 1) - 1
    /\ seed' = NoSeed
    /\ UNCHANGED <<data, row, editing, editor_buf, dirty, disk, pc>>

NavLeft ==
    /\ Key("Left")
    /\ ~editing
    /\ col' = IF col > 0 THEN col - 1 ELSE col
    /\ seed' = NoSeed
    /\ UNCHANGED <<data, row, editing, editor_buf, dirty, disk, pc>>

\* Mutant: the bound is off by one.
NavRight_off_by_one ==
    /\ Key("Right")
    /\ ~editing
    /\ col' = IF col + 1 <= max_cols(data) THEN col + 1 ELSE col
    /\ seed' = NoSeed
    /\ UNCHANGED <<data, row, editing, editor_buf, dirty, disk, pc>>

NavRight ==
    /\ Key("Right")
    /\ ~editing
    /\ col' = IF col + 1 < max_cols(data) THEN col + 1 ELSE col
    /\ seed' = NoSeed
    /\ UNCHANGED <<data, row, editing, editor_buf, dirty, disk, pc>>

\* KeyCode::Up in Navigating (main.rs:237-242); data[row] is indexed after
\* the decrement.
NavUp ==
    /\ Key("Up")
    /\ ~editing
    /\ IF row > 0
       THEN /\ row' = row - 1
            /\ IF row_exists(data, row - 1)
               THEN col' = clamp_col(data, row - 1, col) /\ pc' = pc
               ELSE col' = col /\ pc' = "panicked"
       ELSE UNCHANGED <<row, col, pc>>
    /\ seed' = NoSeed
    /\ UNCHANGED <<data, editing, editor_buf, dirty, disk>>

\* KeyCode::Down in Navigating (main.rs:243-248); data[row] is indexed after
\* the increment.
NavDown ==
    /\ Key("Down")
    /\ ~editing
    /\ IF row + 1 < Len(data)
       THEN /\ row' = row + 1
            /\ IF row_exists(data, row + 1)
               THEN col' = clamp_col(data, row + 1, col) /\ pc' = pc
               ELSE col' = col /\ pc' = "panicked"
       ELSE UNCHANGED <<row, col, pc>>
    /\ seed' = NoSeed
    /\ UNCHANGED <<data, editing, editor_buf, dirty, disk>>

\* Mutant: Escape in Navigating ends the loop.
NavOther_esc_quits ==
    /\ ~editing
    /\ \E k \in {"Enter", "Esc", "Backspace", "Tab", "x"} :
        /\ Key(k)
        /\ pc' = IF k = "Esc" THEN "done" ELSE pc
    /\ seed' = NoSeed
    /\ UNCHANGED <<app, disk>>

\* Any other key in Navigating (main.rs:249).
NavOther ==
    /\ ~editing
    /\ \E k \in {"Enter", "Esc", "Backspace", "Tab", "x"} : Key(k)
    /\ seed' = NoSeed
    /\ UNCHANGED <<app, disk, pc>>

Next ==
    \/ EditEnter
    \/ EditEsc
    \/ EditBackspace
    \/ EditChar
    \/ EditOther
    \/ NavQuit
    \/ NavWrite
    \/ NavEdit
    \/ NavLeft
    \/ NavRight
    \/ NavUp
    \/ NavDown
    \/ NavOther

\* The program from the top of the loop: main has loaded the file and runs
\* the loop.
Spec == Init /\ [][Next]_vars

\* handle_key on any App value.
SpecApp == InitAny /\ [][Next]_vars

\* ------------------------------------------------------------------------
\* main from process start: arguments, load, terminal, loop, return

\* Files the process may be started on: records of one or more fields each,
\* of equal counts (well-formed) or not.
Files == {f \in AnyGrids : \A i \in 1..Len(f) : Len(f[i]) >= 1}

InitMain ==
    /\ disk \in Files
    /\ data = <<>>
    /\ row = 0
    /\ col = 0
    /\ editing = FALSE
    /\ editor_buf = <<>>
    /\ dirty = FALSE
    /\ pc = "start"
    /\ nkeys = 0
    /\ last = NoKey
    /\ seed = NoSeed
    /\ raw = FALSE
    /\ alt = FALSE
    /\ guard = FALSE
    /\ acquired = FALSE
    /\ cause = "none"

\* Mutant: raw mode is switched on before the argument check.
CheckArgs_raw_first ==
    /\ pc = "start"
    /\ raw' = TRUE
    /\ acquired' = TRUE
    /\ \E given \in BOOLEAN : pc' = IF given THEN "load" ELSE "usage_err"
    /\ UNCHANGED <<app, disk, nkeys, last, seed, alt, guard, cause>>

\* main.rs:255-260: without a path argument main prints the usage and
\* returns an error.
CheckArgs ==
    /\ pc = "start"
    /\ \E given \in BOOLEAN : pc' = IF given THEN "load" ELSE "usage_err"
    /\ UNCHANGED <<app, disk, nkeys, last, seed, term>>

\* main.rs:261-262: load_csv; File::open may fail, and the records may not
\* parse.
LoadFile ==
    /\ pc = "load"
    /\ \E opened \in BOOLEAN :
        LET r == load_csv(disk) IN
        IF opened /\ r.ok
        THEN data' = r.data /\ pc' = "enter_raw"
        ELSE data' = data /\ pc' = "load_err"
    /\ UNCHANGED <<row, col, editing, editor_buf, dirty, disk, nkeys, last, seed, term>>

\* TerminalGuard::enter, main.rs:52: enable_raw_mode()?
EnableRaw ==
    /\ pc = "enter_raw"
    /\ \E ok \in BOOLEAN :
        IF ok
        THEN raw' = TRUE /\ acquired' = TRUE /\ pc' = "enter_alt"
        ELSE UNCHANGED <<raw, acquired>> /\ pc' = "term_err"
    /\ UNCHANGED <<app, disk, nkeys, last, seed, alt, guard, cause>>

\* TerminalGuard::enter, main.rs:53-54: execute!(.., EnterAlternateScreen)?
\* and only then Ok(Self).
EnterAlt ==
    /\ pc = "enter_alt"
    /\ \E ok \in BOOLEAN :
        IF ok
        THEN alt' = TRUE /\ guard' = TRUE /\ pc' = "term_new"
        ELSE UNCHANGED <<alt, guard>> /\ pc' = "term_err"
    /\ UNCHANGED <<app, disk, nkeys, last, seed, raw, acquired, cause>>

\* main.rs:265-266: Terminal::new(..)? and terminal.clear()?
NewTerminal ==
    /\ pc = "term_new"
    /\ \E ok \in BOOLEAN : pc' = IF ok THEN "loop" ELSE "term_err"
    /\ UNCHANGED <<app, disk, nkeys, last, seed, term>>

\* main.rs:279-281: draw_ui(..)?, event::poll(..)? or event::read()? fails.
LoopIoError ==
    /\ pc = "loop"
    /\ pc' = "io_err"
    /\ UNCHANGED <<app, disk, nkeys, last, seed, term>>

\* main.rs:280-281: the poll times out, or the event read is not a key;
\* handle_key is not called.
NoKeyEvent ==
    /\ pc = "loop"
    /\ \E e \in {"timeout", "event"} :
        last' = [code |-> e, row |-> row, col |-> col, dirty |-> dirty,
                 save |-> "none", ch |-> "", mods |-> {}]
    /\ UNCHANGED <<app, disk, pc, nkeys, seed, term>>

\* Points at which main returns (or unwinds).
Returned == {"usage_err", "load_err", "term_err", "io_err", "failed", "done",
             "panicked"}

\* main returns: its locals are dropped, _guard among them if it was built
\* (Drop for TerminalGuard, main.rs:58-64).
ProcessExit ==
    /\ pc \in Returned
    /\ pc' = "exited"
    /\ cause' = pc
    /\ IF guard
       THEN raw' = FALSE /\ alt' = FALSE /\ guard' = FALSE
       ELSE UNCHANGED <<raw, alt, guard>>
    /\ UNCHANGED <<app, disk, nkeys, last, seed, acquired>>

NextMain ==
    \/ CheckArgs
    \/ LoadFile
    \/ EnableRaw
    \/ EnterAlt
    \/ NewTerminal
    \/ LoopIoError
    \/ NoKeyEvent
    \/ ProcessExit
    \/ Next

\* The whole program.
SpecMain == InitMain /\ [][NextMain]_vars

\* ------------------------------------------------------------------------
\* Properties

\* The file holds exactly grid d: loading it succeeds and returns d.
FileHolds(file, d) == load_csv(file).ok /\ load_csv(file).data = d

\* A key was handled in Navigating / in Editing mode by this step.
NavStep(code) == ~editing /\ nkeys' = nkeys + 1 /\ last'.code = code
EditStep(code) == editing /\ nkeys' = nkeys + 1 /\ last'.code = code

\* C1 (Edit-commit): 'e' in Navigating at (r,c) sets the buffer to the text
\* of cell (r,c), empty if the cell did not exist; buffer keys leave the grid
\* alone; Enter then leaves cell (r,c) equal to the final buffer, dirty set,
\* mode Navigating, and every other cell that existed before the 'e' with
\* its text.
C1_EditCommit ==
    [][ /\ NavStep("e") =>
            /\ editor_buf' = cell_text(data, row, col)
            /\ editing'
            /\ <<row', col'>> = <<row, col>>
        /\ (editing /\ editing') =>
            /\ <<data', row', col', dirty'>> = <<data, row, col, dirty>>
            /\ seed' = seed
        /\ EditStep("Enter") =>
            /\ cell_exists(data', row, col)
            /\ cell_text(data', row, col) = editor_buf
            /\ dirty'
            /\ ~editing'
            /\ <<row', col'>> = <<row, col>>
            /\ seed.on
            /\ \A i \in 0..(Len(seed.data) - 1) :
                 \A j \in 0..(Len(seed.data[i + 1]) - 1) :
                    <<i, j>> # <<row, col>> =>
                        /\ cell_exists(data', i, j)
                        /\ cell_text(data', i, j) = cell_text(seed.data, i, j)
      ]_vars

\* An edit of a cell beside other cells was committed with a typed text of
\* two characters that differs from the seed.
C1_Witness ==
    /\ last.code = "Enter"
    /\ seed.on
    /\ ~editing
    /\ dirty
    /\ Len(data) >= 2
    /\ Len(data[row + 1]) >= 2
    /\ Len(cell_text(data, row, col)) >= 2
    /\ cell_text(data, row, col) # cell_text(seed.data, row, col)

\* C2 (Edit-cancel): after 'e', buffer keys and Escape, the grid and the
\* dirty flag are exactly as they were before the 'e'.
C2_CancelRestores ==
    (last.code = "Esc" /\ seed.on) =>
        (data = seed.data /\ dirty = seed.dirty)

\* C3 (Quit saves when dirty): when 'q' found dirty = true and the loop was
\* told to terminate, the save has completed and the file holds the grid.
C3_QuitSaved ==
    (pc = "done" /\ last.dirty) =>
        (last.code = "q" /\ last.save = "ok" /\ FileHolds(disk, data))

\* The loop ended through 'q' after a committed edit of typed text.
C3_Witness ==
    /\ pc = "done"
    /\ last.code = "q"
    /\ last.dirty
    /\ FileHolds(disk, data)
    /\ \E i \in 1..Len(data) : \E j \in 1..Len(data[i]) : Len(data[i][j]) >= 2

\* C4 (Quit clears dirty): after the successful auto-save of 'q', dirty is
\* false in the state in which the loop terminates.
C4_QuitClearsDirty ==
    (pc = "done" /\ last.code = "q" /\ last.dirty /\ last.save = "ok") => ~dirty

\* C5 (Write key): 'w' in Navigating whose save succeeds makes the file hold
\* the grid, clears dirty, and leaves mode, cursor and grid as they were,
\* without ending the loop.
C5_WriteKey ==
    [][ (NavStep("w") /\ last'.save = "ok") =>
            /\ FileHolds(disk', data')
            /\ ~dirty'
            /\ ~editing'
            /\ <<data', row', col', editor_buf'>> = <<data, row, col, editor_buf>>
            /\ pc' = "loop"
      ]_vars

\* 'w' saved a dirty grid that holds a committed typed text.
C5_Witness ==
    /\ last.code = "w"
    /\ last.save = "ok"
    /\ last.dirty
    /\ ~dirty
    /\ pc = "loop"
    /\ disk = data
    /\ \E i \in 1..Len(data) : \E j \in 1..Len(data[i]) : Len(data[i][j]) >= 2

\* C6 (Save failure): when the save of 'w' or of 'q'-while-dirty fails, the
\* handler returns the error (the loop ends failed, neither continuing nor
\* exiting normally) and grid, cursor, mode, buffer and dirty flag are as
\* before the key; the loop fails in no other way.
C6_SaveFailure ==
    [][ /\ (nkeys' = nkeys + 1 /\ last'.save = "err") =>
            /\ pc' = "failed"
            /\ last'.code \in {"w", "q"}
            /\ UNCHANGED app
        /\ pc' = "failed" => last'.save = "err"
      ]_vars

\* A save failed while the grid was dirty.
C6_Witness ==
    /\ pc = "failed"
    /\ last.save = "err"
    /\ last.code = "w"
    /\ last.dirty
    /\ dirty

\* C7 (Cursor bounds): 0 <= row < max(1, height) and 0 <= col < max(1, width)
\* in every state.
C7_CursorBounds ==
    /\ 0 <= row
    /\ row < Max(1, Len(data))
    /\ 0 <= col
    /\ col < Max(1, max_cols(data))

\* The cursor stands in the last row and last column of a jagged grid, beyond
\* the end of its own row, after Arrow-right was refused.
C7_Witness ==
    /\ last.code = "Right"
    /\ ~editing
    /\ last.col = col
    /\ Len(data) >= 2
    /\ row = Len(data) - 1
    /\ col = max_cols(data) - 1
    /\ col >= Len(data[row + 1])

\* C8 (Boundary moves): in Navigating, Left at col 0, Up at row 0, Right at
\* col + 1 >= width and Down at row + 1 >= height change nothing; otherwise
\* Left/Right change col by one and keep row, Up/Down change row by one.
C8_BoundaryMoves ==
    [][ /\ NavStep("Left") =>
            IF col = 0 THEN UNCHANGED <<app, disk, pc>>
            ELSE col' = col - 1 /\ row' = row
        /\ NavStep("Right") =>
            IF col + 1 >= max_cols(data) THEN UNCHANGED <<app, disk, pc>>
            ELSE col' = col + 1 /\ row' = row
        /\ NavStep("Up") =>
            IF row = 0 THEN UNCHANGED <<app, disk, pc>>
            ELSE row' = row - 1
        /\ NavStep("Down") =>
            IF row + 1 >= Len(data) THEN UNCHANGED <<app, disk, pc>>
            ELSE row' = row + 1
        /\ (\E k \in {"Left", "Right", "Up", "Down"} : NavStep(k)) =>
            UNCHANGED <<data, editing, editor_buf, dirty, disk, pc>>
      ]_vars

\* Arrow-down was refused in the last row, reached by an earlier Arrow-down.
C8_Witness ==
    /\ last.code = "Down"
    /\ ~editing
    /\ last.row = row
    /\ row >= 1
    /\ row + 1 = Len(data)

\* C9 (Vertical clamp): after an Up or Down that changes the row, col is
\* min(old col, length of the new row - 1) when the new row has cells and 0
\* when it has none; on a row with cells the cursor addresses a cell.
C9_VerticalClamp ==
    [][ ((NavStep("Up") \/ NavStep("Down")) /\ row' # row) =>
            LET n == Len(data'[row' + 1]) IN
            /\ n >= 1 => col' = Min(col, n - 1)
            /\ n >= 1 => cell_exists(data', row', col')
            /\ n = 0 => col' = 0
      ]_vars

\* A vertical move from a column > 0 onto a row without cells.
C9_Witness ==
    /\ last.code \in {"Up", "Down"}
    /\ ~editing
    /\ last.row # row
    /\ last.col > 0
    /\ Len(data[row + 1]) = 0
    /\ col = 0

\* C10 (Auto-grow): 'e' at a cell outside the extent grows the grid so that
\* the cell exists; added rows and cells are empty, rows other than the
\* cursor's keep their length, and every cell that existed keeps its place
\* and text.
C10_AutoGrow ==
    [][ (NavStep("e") /\ ~cell_exists(data, row, col)) =>
            LET old == IF row < Len(data) THEN data[row + 1] ELSE <<>> IN
            /\ cell_exists(data', row, col)
            /\ Len(data') = Max(Len(data), row + 1)
            /\ \A i \in 1..Len(data) : i # row + 1 => data'[i] = data[i]
            /\ \A i \in (Len(data) + 1)..Len(data') : i # row + 1 => data'[i] = <<>>
            /\ Len(data'[row + 1]) = col + 1
            /\ \A j \in 1..Len(old) : data'[row + 1][j] = old[j]
            /\ \A j \in (Len(old) + 1)..(col + 1) : data'[row + 1][j] = <<>>
      ]_vars

\* 'e' grew a row that already had a cell, in a grid with another row.
C10_Witness ==
    /\ last.code = "e"
    /\ editing
    /\ seed.on
    /\ Len(seed.data) >= 2
    /\ Len(seed.data[row + 1]) >= 1
    /\ Len(data[row + 1]) > Len(seed.data[row + 1])
    /\ seed.data[row + 1][1] # <<>>

\* C11 (No out-of-bounds access): no key on any grid makes handle_key index
\* the grid out of bounds (data[row] in Up/Down, data[row][col] in 'e' and
\* Enter), so it never panics, and it returns no error but a save failure.
C11_NoPanic ==
    /\ pc # "panicked"
    /\ pc = "failed" => (last.save = "err" /\ last.code \in {"w", "q"})

\* Arrow-down indexed a row without cells and 'e' then indexed the cell it
\* had just grown there.
C11_Witness ==
    /\ last.code = "e"
    /\ editing
    /\ pc = "loop"
    /\ seed.on
    /\ row >= 1
    /\ Len(seed.data[row + 1]) = 0
    /\ cell_exists(data, row, col)

\* C12 (Terminal release): on every path on which the process ends, raw mode
\* is off and the alternate screen is left when the process exits.
C12_TerminalReleased ==
    pc = "exited" => (~raw /\ ~alt)

\* C13 (Startup ordering): raw mode and the alternate screen are switched on
\* only after the argument check passed and the file loaded; a missing
\* argument or an open/parse error ends the process without the terminal
\* ever having been touched.
C13_StartupOrder ==
    /\ (pc \in {"start", "load", "usage_err", "load_err"}
          \/ cause \in {"usage_err", "load_err"}) =>
            (~acquired /\ ~raw /\ ~alt /\ ~guard)
    /\ pc \in {"enter_raw", "enter_alt", "term_new"} => FileHolds(disk, data)
    /\ (raw \/ alt \/ guard) => acquired

\* The process ended on a file that does not parse, the terminal untouched.
C13_Witness ==
    /\ pc = "exited"
    /\ cause = "load_err"
    /\ ~load_csv(disk).ok
    /\ ~acquired

C15_JaggedSave ==
    (last.code = "w" /\ first_unequal(data) # 0) =>
        \E res \in save_csv(disk, data) : res.ok /\ res.file = data

\* C16 (Editing-mode key isolation): in Editing, every key but Enter and
\* Escape leaves mode, cursor, grid and dirty flag alone, saves nothing and
\* does not end the loop; an unmodified character, 'w', 'q' and 'e'
\* included, is appended to the buffer.
C16_EditingIsolation ==
    [][ /\ (editing /\ nkeys' = nkeys + 1 /\ last'.code \notin {"Enter", "Esc"}) =>
            /\ UNCHANGED <<data, row, col, editing, dirty, disk, pc>>
            /\ last'.save = "none"
        /\ (editing /\ nkeys' = nkeys + 1 /\ last'.code \in {"Left", "Right", "Up", "Down", "Tab"}) =>
            editor_buf' = editor_buf
        /\ (EditStep("Char") /\ last'.mods = {}) =>
            /\ last'.ch \in Chars
            /\ editor_buf' = Append(editor_buf, last'.ch)
      ]_vars

\* An unmodified 'q' was appended to a non-empty buffer.
C16_Witness ==
    /\ editing
    /\ pc = "loop"
    /\ last.code = "Char"
    /\ last.ch = "q"
    /\ last.mods = {}
    /\ Len(editor_buf) >= 2
    /\ editor_buf[Len(editor_buf)] = "q"

\* C17 (Modifier rule): in Editing a character key appends its character to
\* the end of the buffer iff its modifier set is empty or exactly {shift};
\* with any other modifier set nothing changes.
C17_ModifierRule ==
    [][ (editing /\ nkeys' = nkeys + 1 /\ last'.code \in {"Char", "ModChar"}) =>
            IF last'.mods = {} \/ last'.mods = {"shift"}
            THEN /\ last'.code = "Char"
                 /\ editor_buf' = Append(editor_buf, last'.ch)
                 /\ UNCHANGED <<data, row, col, editing, dirty, disk, pc>>
            ELSE /\ last'.code = "ModChar"
                 /\ UNCHANGED <<app, disk, pc>>
      ]_vars

\* A character with shift and control was ignored on a non-empty buffer.
C17_Witness ==
    /\ editing
    /\ last.code = "ModChar"
    /\ last.mods = {"shift", "ctrl"}
    /\ editor_buf # <<>>

\* C18 (Buffer only while editing): in Navigating the buffer is empty; an
\* edit session keeps the cursor of its 'e', and Enter changes no cell but
\* the one at that cursor.
C18_BufferOnlyWhileEditing ==
    /\ ~editing => editor_buf = <<>>
    /\ (editing \/ (last.code \in {"Enter", "Esc"} /\ seed.on)) =>
            (seed.on /\ <<row, col>> = <<seed.row, seed.col>>)
    /\ (last.code = "Enter" /\ seed.on) =>
            \A i \in 0..(Len(data) - 1) : \A j \in 0..(Len(data[i + 1]) - 1) :
                <<i, j>> # <<seed.row, seed.col>> =>
                    cell_text(data, i, j) = cell_text(seed.data, i, j)

\* Escape closed a session whose buffer had been seeded with a text.
C18_Witness ==
    /\ last.code = "Esc"
    /\ seed.on
    /\ ~editing
    /\ editor_buf = <<>>
    /\ cell_text(seed.data, seed.row, seed.col) # <<>>
    /\ seed.row >= 1

\* C19 (Exit only through quit): the loop ends normally only by a 'q'
\* handled in Navigating, with the auto-save succeeded or dirty false; no
\* other key, no key in Editing, no other event and no timeout ends it; a
\* 'q' in Navigating ends it in that iteration, normally or by a save error.
C19_ExitOnlyByQuit ==
    [][ /\ (pc' = "done" /\ pc # "done") =>
            /\ pc = "loop"
            /\ ~editing
            /\ nkeys' = nkeys + 1
            /\ last'.code = "q"
            /\ IF dirty THEN last'.save = "ok" ELSE last'.save = "none"
        /\ cause' = "done" => pc \in {"done", "exited"}
        /\ NavStep("q") => pc' \in {"done", "failed"}
        /\ (last' # last /\ last'.code \in {"timeout", "event"}) =>
            (pc = "loop" /\ pc' = "loop" /\ UNCHANGED app)
        /\ (editing /\ nkeys' = nkeys + 1) => pc' = "loop"
      ]_vars

\* The process ended normally through 'q', the auto-save having succeeded.
C19_Witness ==
    /\ pc = "exited"
    /\ cause = "done"
    /\ last.code = "q"
    /\ last.dirty
    /\ last.save = "ok"

\* C20 (Dirty tracks divergence): while dirty is false the grid in memory is
\* the grid last loaded or last saved.
C20_DirtyTracks ==
    (pc \in {"loop", "done"} /\ ~dirty) => FileHolds(disk, data)

====
